---- MODULE Spec2Model ----
(***************************************************************************)
(* Model of anonymize-places (src/main.rs): the StringAnonymizer           *)
(* substitution table, the "anonymize" SQL scalar function that wraps it   *)
(* in an Arc<Mutex<..>>, and the BEGIN ... COMMIT; VACUUM batch that       *)
(* rewrites the copied places database.                                    *)
(*                                                                         *)
(* Strings are sequences of characters.  The character "u" stands for a    *)
(* non-ASCII character whose UTF-8 encoding takes two bytes; "a" and "b"   *)
(* are one-byte ASCII alphanumerics.  Originals are built from "a" and     *)
(* "u", generated replacements from "a" and "b".                           *)
(***************************************************************************)
EXTENDS Integers, Sequences, FiniteSets, TLC

\* ------------------------------------------------------------------ bounds
\* Longest original string handed to anonymize, in UTF-8 bytes.
MaxBytes == 2
\* Largest number of entries the harness lets the table grow to.
MaxEntries == 2
\* Largest number of rows of moz_places in an initial database.
MaxRows == 2

\* ------------------------------------------------------- program constants
\* for i in 0..10
MaxAttempts == 10
\* ... && i != 9
LastIndex == 9

\* ------------------------------------------------------------- characters
\* the characters originals are built from
Chars == {"a", "u"}
\* rand::distributions::Alphanumeric, restricted to two symbols
Alphanumeric == {"a", "b"}

Threads == {1, 2}
NoThread == 0

\* str::len(): the length of a string in UTF-8 bytes
RECURSIVE Utf8Len(_)
Utf8Len(str) ==
    IF str = <<>> THEN 0
    ELSE (IF Head(str) = "u" THEN 2 ELSE 1) + Utf8Len(Tail(str))

\* SQL length() of a text value: the number of characters
CharLen(str) == Len(str)

\* every string of at most n characters
StringsUpTo(n) == UNION {[1..k -> Chars] : k \in 0..n}

\* the originals the model feeds to anonymize
Originals == {str \in StringsUpTo(MaxBytes) : Utf8Len(str) <= MaxBytes}

\* rand_string_of_len(len): every string the generator can return
rand_string_of_len(len) == [1..len -> Alphanumeric]

\* ------------------------------------------------------------- SQL values
Null == [type |-> "null", v |-> <<>>]
IntVal == [type |-> "integer", v |-> <<"7">>]
Text(str) == [type |-> "text", v |-> str]

\* IFNULL(x, '')
IFNULL(x) == IF x.type = "null" THEN Text(<<>>) ELSE x

\* results of the scalar function closure
Ok(str) == [ok |-> TRUE, v |-> str]
Err == [ok |-> FALSE, v |-> <<>>]

\* the values a caller can pass to the SQL function
ArgValues == {Null, IntVal} \cup {Text(str) : str \in Originals}

VARIABLES
    table,      \* StringAnonymizer.table : HashMap<String, String>
    mutex,      \* holder of the Mutex around the anonymizer, or NoThread
    pc,         \* pc[t]: position of thread t inside the closure
    arg,        \* arg[t]: SQL value passed to the closure (ctx argument 0)
    s,          \* s[t]: the &str anonymize is working on
    i,          \* i[t]: loop variable of the retry loop
    result,     \* result[t]: what the closure returned
    ncand,      \* ncand[t]: candidates generated during the current call
    hit,        \* hit[t]: the current call was answered from the table
    concurrent, \* concurrent[t]: the call began while another thread's call
                \* with the same argument was in flight
    log,        \* the insertions so far: [key, value, tenth, dup], tenth when
                \* made on the 10th attempt, dup when the value was already a
                \* value of the table
    returned,   \* every (original, replacement) pair handed back so far
    db,         \* the committed content of the output database file
    txn,        \* the content seen inside the open transaction, or NoTxn
    stmt,       \* index in Batch of the statement being executed
    row,        \* row the running UPDATE is at
    col,        \* index of the SET clause the running UPDATE is at
    status,     \* "running", "ok" (main returned Ok) or "failed" (Err)
    cause,      \* why execute_batch failed
    origDb      \* the database as copied from the profile

rewriteVars == <<db, txn, stmt, row, col, status, cause, origDb>>

vars == <<table, mutex, pc, arg, s, i, result, ncand, hit, concurrent, log, returned,
          db, txn, stmt, row, col, status, cause, origDb>>

\* ------------------------------------------------------ StringAnonymizer
IsEmptyNever(str) == FALSE

\* s.len() == 0
IsEmpty(str) == Utf8Len(str) = 0

ContainsNever(tbl, str) == FALSE

\* self.table.get(s).is_some()
Contains(tbl, str) == str \in DOMAIN tbl

\* self.table.get(&replacement).is_some()
Collides(tbl, replacement) == replacement \in DOMAIN tbl

LastAttemptOffByOne(n) == n = LastIndex + 1

\* i != 9 is false: the attempt at which the candidate is forced
LastAttempt(n) == n = LastIndex

\* self.table.insert(s.into(), replacement.clone())
Insert(tbl, key, value) ==
    [k \in (DOMAIN tbl) \cup {key} |-> IF k = key THEN value ELSE tbl[k]]

TableSize == Cardinality(DOMAIN table)

\* ------------------------------------------------------------ the closure
LockFreeAlways(t) == TRUE

\* let mut a = anonymizer.lock().unwrap();
LockFree(t) == mutex = NoThread

ClosureLock(t) ==
    /\ pc[t] = "called"
    /\ LockFree(t)
    /\ mutex' = t
    /\ pc' = [pc EXCEPT ![t] = "locked"]
    /\ UNCHANGED <<table, arg, s, i, result, ncand, hit, concurrent, log, returned>>
    /\ UNCHANGED rewriteVars

\* let arg = ctx.get::<String>(0)?;
ClosureGetArg(t) ==
    /\ pc[t] = "locked"
    /\ IF arg[t].type = "text"
       THEN /\ s' = [s EXCEPT ![t] = arg[t].v]
            /\ pc' = [pc EXCEPT ![t] = "anonymize"]
            /\ UNCHANGED <<mutex, result>>
       ELSE /\ result' = [result EXCEPT ![t] = Err]
            /\ pc' = [pc EXCEPT ![t] = "done"]
            /\ mutex' = IF mutex = t THEN NoThread ELSE mutex
            /\ UNCHANGED s
    /\ UNCHANGED <<table, arg, i, ncand, hit, concurrent, log, returned>>
    /\ UNCHANGED rewriteVars

\* anonymize, up to the retry loop: the empty check and the lookup
AnonymizeEntry(t) ==
    /\ pc[t] = "anonymize"
    /\ IF IsEmpty(s[t])
       THEN /\ result' = [result EXCEPT ![t] = Ok(<<>>)]
            /\ pc' = [pc EXCEPT ![t] = "done"]
            /\ mutex' = IF mutex = t THEN NoThread ELSE mutex
            /\ returned' = returned \cup {<<s[t], <<>> >>}
            /\ UNCHANGED <<i, hit>>
       ELSE IF Contains(table, s[t])
       THEN /\ result' = [result EXCEPT ![t] = Ok(table[s[t]])]
            /\ pc' = [pc EXCEPT ![t] = "done"]
            /\ mutex' = IF mutex = t THEN NoThread ELSE mutex
            /\ returned' = returned \cup {<<s[t], table[s[t]]>>}
            /\ hit' = [hit EXCEPT ![t] = TRUE]
            /\ UNCHANGED i
       ELSE /\ i' = [i EXCEPT ![t] = 0]
            /\ pc' = [pc EXCEPT ![t] = "loop"]
            /\ UNCHANGED <<result, mutex, returned, hit>>
    /\ UNCHANGED <<table, arg, s, ncand, concurrent, log>>
    /\ UNCHANGED rewriteVars

\* one iteration of the retry loop
AnonymizeAttempt(t) ==
    /\ pc[t] = "loop"
    /\ \E replacement \in rand_string_of_len(Utf8Len(s[t])) :
         /\ ncand' = [ncand EXCEPT ![t] = @ + 1]
         /\ IF Collides(table, replacement) /\ ~LastAttempt(i[t])
            THEN \* continue
                 /\ i' = [i EXCEPT ![t] = @ + 1]
                 /\ pc' = [pc EXCEPT ![t] =
                              IF i[t] + 1 < MaxAttempts THEN "loop"
                                                        ELSE "unreachable"]
                 /\ UNCHANGED <<table, result, mutex, log, returned>>
            ELSE /\ table' = Insert(table, s[t], replacement)
                 /\ log' = log \cup {[key |-> s[t], value |-> replacement,
                                        tenth |-> (i[t] + 1 = MaxAttempts),
                                        dup |-> \E k \in DOMAIN table :
                                                    table[k] = replacement]}
                 /\ result' = [result EXCEPT ![t] = Ok(replacement)]
                 /\ returned' = returned \cup {<<s[t], replacement>>}
                 /\ pc' = [pc EXCEPT ![t] = "done"]
                 /\ mutex' = IF mutex = t THEN NoThread ELSE mutex
                 /\ UNCHANGED i
    /\ UNCHANGED <<arg, s, hit, concurrent>>
    /\ UNCHANGED rewriteVars

\* --------------------------------------------------------------- harness
\* a caller invokes the SQL function with the value v, as long as the table
\* stays within MaxEntries
Invoke(t, v) ==
    /\ pc[t] \in {"idle", "done"}
    /\ \/ v.type # "text"
       \/ v.v = <<>>
       \/ v.v \in DOMAIN table
       \/ TableSize + Cardinality({u \in Threads : pc[u] \notin {"idle", "done"}})
            < MaxEntries
    /\ arg' = [arg EXCEPT ![t] = v]
    /\ concurrent' = [concurrent EXCEPT ![t] =
           \E u \in Threads \ {t} :
               pc[u] \in {"called", "locked", "anonymize", "loop"} /\ arg[u] = v]
    /\ pc' = [pc EXCEPT ![t] = "called"]
    /\ s' = [s EXCEPT ![t] = <<>>]
    /\ i' = [i EXCEPT ![t] = 0]
    /\ result' = [result EXCEPT ![t] = Err]
    /\ ncand' = [ncand EXCEPT ![t] = 0]
    /\ hit' = [hit EXCEPT ![t] = FALSE]
    /\ UNCHANGED <<table, mutex, log, returned>>
    /\ UNCHANGED rewriteVars

\* the single caller passes any value
Call(t) == \E v \in ArgValues : Invoke(t, v)

\* the values rows processed in parallel hold
SharedValues ==
    {Null, Text(<<>>), Text(<<"a">>), Text(<<"u">>), Text(<<"a", "a">>)}

\* one of several callers passes a value
CallShared(t) == \E v \in SharedValues : Invoke(t, v)

\* ------------------------------------------------------------ the batch
Zero == [type |-> "integer", v |-> <<"0">>]

Stmt(kind, tbl, set) == [kind |-> kind, tbl |-> tbl, set |-> set]
Set(column, expr) == [col |-> column, expr |-> expr]

\* the statements handed to execute_batch, in order
Batch == <<
    Stmt("begin", "", <<>>),
    Stmt("update", "moz_origins",
         <<Set("prefix", "anonymize_ifnull"), Set("host", "anonymize_ifnull")>>),
    Stmt("update", "moz_inputhistory",
         <<Set("input", "anonymize_ifnull")>>),
    Stmt("update", "moz_places",
         <<Set("url", "anonymize"),
           Set("title", "anonymize_ifnull"),
           Set("rev_host", "anonymize_ifnull"),
           Set("description", "anonymize_ifnull"),
           Set("preview_image_url", "anonymize_ifnull"),
           Set("url_hash", "zero")>>),
    Stmt("update", "moz_bookmarks",
         <<Set("title", "anonymize_ifnull"), Set("folder_type", "anonymize_ifnull")>>),
    Stmt("delete", "moz_hosts", <<>>),
    Stmt("delete", "moz_anno_attributes", <<>>),
    Stmt("delete", "moz_annos", <<>>),
    Stmt("delete", "moz_items_annos", <<>>),
    Stmt("delete", "moz_bookmarks_deleted", <<>>),
    Stmt("delete", "moz_keywords", <<>>),
    Stmt("commit", "", <<>>),
    Stmt("vacuum", "", <<>>) >>

\* the tables the batch empties
DeletedTables == {Batch[k].tbl : k \in {n \in 1..Len(Batch) : Batch[n].kind = "delete"}}

\* the tables the batch updates
UpdatedTables == {Batch[k].tbl : k \in {n \in 1..Len(Batch) : Batch[n].kind = "update"}}

NoTxn == [open |-> FALSE, data |-> <<>>]

DeleteFromWhereFalse(d, tbl) == d

\* DELETE FROM tbl
DeleteFrom(d, tbl) == [d EXCEPT ![tbl] = <<>>]

\* SET column = value in one row of tbl
SetCell(d, tbl, r, column, value) == [d EXCEPT ![tbl][r][column] = value]

Running == status = "running" /\ stmt <= Len(Batch)
Cur == Batch[stmt]

\* BEGIN
ExecBegin ==
    /\ Running /\ Cur.kind = "begin"
    /\ txn' = [open |-> TRUE, data |-> db]
    /\ stmt' = stmt + 1
    /\ UNCHANGED <<db, row, col, status, cause, origDb>>
    /\ UNCHANGED <<table, mutex, pc, arg, s, i, result, ncand, hit, concurrent, log, returned>>

\* the position after the SET clause at (row, col) of the running UPDATE
NextRow == IF col < Len(Cur.set) THEN row ELSE row + 1
NextCol == IF col < Len(Cur.set) THEN col + 1 ELSE 1

\* UPDATE: evaluate the next SET clause of the next row; an anonymize(...)
\* expression invokes the registered function
UpdateEval ==
    /\ Running /\ Cur.kind = "update"
    /\ pc[1] = "idle"
    /\ row <= Len(txn.data[Cur.tbl])
    /\ LET clause == Cur.set[col]
           old == txn.data[Cur.tbl][row][clause.col]
       IN  IF clause.expr = "zero"
           THEN /\ txn' = [txn EXCEPT !.data = SetCell(@, Cur.tbl, row, clause.col, Zero)]
                /\ row' = NextRow
                /\ col' = NextCol
                /\ UNCHANGED <<pc, arg, s, i, result, ncand, hit>>
           ELSE /\ arg' = [arg EXCEPT ![1] =
                              IF clause.expr = "anonymize_ifnull" THEN IFNULL(old) ELSE old]
                /\ pc' = [pc EXCEPT ![1] = "called"]
                /\ s' = [s EXCEPT ![1] = <<>>]
                /\ i' = [i EXCEPT ![1] = 0]
                /\ result' = [result EXCEPT ![1] = Err]
                /\ ncand' = [ncand EXCEPT ![1] = 0]
                /\ hit' = [hit EXCEPT ![1] = FALSE]
                /\ UNCHANGED <<txn, row, col>>
    /\ UNCHANGED <<db, stmt, status, cause, origDb>>
    /\ UNCHANGED <<table, mutex, concurrent, log, returned>>

\* UPDATE: the function returned; Ok stores the replacement, Err fails the
\* statement, execute_batch(..)? returns from main and dropping the
\* connection rolls the open transaction back
UpdateReturn ==
    /\ Running /\ Cur.kind = "update"
    /\ pc[1] = "done"
    /\ pc' = [pc EXCEPT ![1] = "idle"]
    /\ IF result[1].ok
       THEN /\ txn' = [txn EXCEPT !.data =
                          SetCell(@, Cur.tbl, row, Cur.set[col].col, Text(result[1].v))]
            /\ row' = NextRow
            /\ col' = NextCol
            /\ UNCHANGED <<status, cause>>
       ELSE /\ status' = "failed"
            /\ cause' = "InvalidFunctionParameterType"
            /\ txn' = NoTxn
            /\ UNCHANGED <<row, col>>
    /\ UNCHANGED <<db, stmt, origDb>>
    /\ UNCHANGED <<table, mutex, arg, s, i, result, ncand, hit, concurrent, log, returned>>

\* UPDATE: every row is done
UpdateDone ==
    /\ Running /\ Cur.kind = "update"
    /\ pc[1] = "idle"
    /\ row > Len(txn.data[Cur.tbl])
    /\ stmt' = stmt + 1
    /\ row' = 1
    /\ col' = 1
    /\ UNCHANGED <<db, txn, status, cause, origDb>>
    /\ UNCHANGED <<table, mutex, pc, arg, s, i, result, ncand, hit, concurrent, log, returned>>

\* DELETE FROM ...
ExecDelete ==
    /\ Running /\ Cur.kind = "delete"
    /\ txn' = [txn EXCEPT !.data = DeleteFrom(@, Cur.tbl)]
    /\ stmt' = stmt + 1
    /\ UNCHANGED <<db, row, col, status, cause, origDb>>
    /\ UNCHANGED <<table, mutex, pc, arg, s, i, result, ncand, hit, concurrent, log, returned>>

\* COMMIT
ExecCommit ==
    /\ Running /\ Cur.kind = "commit"
    /\ db' = txn.data
    /\ txn' = NoTxn
    /\ stmt' = stmt + 1
    /\ UNCHANGED <<row, col, status, cause, origDb>>
    /\ UNCHANGED <<table, mutex, pc, arg, s, i, result, ncand, hit, concurrent, log, returned>>

\* VACUUM, the last statement: execute_batch returns Ok and main Ok(())
ExecVacuum ==
    /\ Running /\ Cur.kind = "vacuum"
    /\ stmt' = stmt + 1
    /\ status' = IF stmt = Len(Batch) THEN "ok" ELSE status
    /\ UNCHANGED <<db, txn, row, col, cause, origDb>>
    /\ UNCHANGED <<table, mutex, pc, arg, s, i, result, ncand, hit, concurrent, log, returned>>

\* the storage layer fails the current statement: execute_batch(..)? returns
\* the error from main, and dropping the connection rolls back a transaction
\* that is still open
StmtFail ==
    /\ Running
    /\ pc[1] = "idle"
    /\ status' = "failed"
    /\ cause' = "StorageFailure"
    /\ txn' = NoTxn
    /\ UNCHANGED <<db, stmt, row, col, origDb>>
    /\ UNCHANGED <<table, mutex, pc, arg, s, i, result, ncand, hit, concurrent, log, returned>>

\* ----------------------------------------------------- initial databases
UrlValues == {Null, IntVal, Text(<<"a">>), Text(<<"u">>)}
TitleValues == {Null, Text(<<"a">>)}

PlaceRows ==
    {[url |-> u, title |-> ti, rev_host |-> Text(<<>>), description |-> Null,
      preview_image_url |-> Null, url_hash |-> IntVal] :
        u \in UrlValues, ti \in TitleValues}

SeqsUpTo(S, n) == UNION {[1..k -> S] : k \in 0..n}

\* one row per auxiliary table
AuxRows(n) == [j \in 1..n |-> [content |-> Text(<<"a", "a">>)]]

\* a places database: the given moz_places rows, n rows in every other table
MakeDb(places, n) ==
    [moz_origins |-> [j \in 1..n |-> [prefix |-> Text(<<"a">>), host |-> Text(<<"a", "a">>)]],
     moz_inputhistory |-> [j \in 1..n |-> [input |-> Text(<<"a">>)]],
     moz_places |-> places,
     moz_bookmarks |-> [j \in 1..n |-> [title |-> Text(<<"a">>), folder_type |-> Null]],
     moz_hosts |-> AuxRows(n),
     moz_anno_attributes |-> AuxRows(n),
     moz_annos |-> AuxRows(n),
     moz_items_annos |-> AuxRows(n),
     moz_bookmarks_deleted |-> AuxRows(n),
     moz_keywords |-> AuxRows(n)]

InitialDbs == {MakeDb(places, n) : places \in SeqsUpTo(PlaceRows, MaxRows), n \in 0..1}

AnonInit ==
    /\ table = <<>>
    /\ mutex = NoThread
    /\ pc = [t \in Threads |-> "idle"]
    /\ arg = [t \in Threads |-> Null]
    /\ s = [t \in Threads |-> <<>>]
    /\ i = [t \in Threads |-> 0]
    /\ result = [t \in Threads |-> Err]
    /\ ncand = [t \in Threads |-> 0]
    /\ hit = [t \in Threads |-> FALSE]
    /\ concurrent = [t \in Threads |-> FALSE]
    /\ log = {}
    /\ returned = {}

\* no batch: the anonymizer is driven directly
NoBatch ==
    /\ db = MakeDb(<<>>, 0)
    /\ origDb = db
    /\ txn = NoTxn
    /\ stmt = 1
    /\ row = 1
    /\ col = 1
    /\ status = "idle"
    /\ cause = "none"

Init == AnonInit /\ NoBatch

\* main has registered the function and is about to call execute_batch
InitRewrite ==
    /\ AnonInit
    /\ db \in InitialDbs
    /\ origDb = db
    /\ txn = NoTxn
    /\ stmt = 1
    /\ row = 1
    /\ col = 1
    /\ status = "running"
    /\ cause = "none"

\* one caller, as in main: SQLite runs the function on the calling thread
Next ==
    \/ Call(1)
    \/ ClosureLock(1)
    \/ ClosureGetArg(1)
    \/ AnonymizeEntry(1)
    \/ AnonymizeAttempt(1)

Spec == Init /\ [][Next]_vars

\* the batch of main, calling the function from its UPDATE statements
NextRewrite ==
    \/ ExecBegin
    \/ UpdateEval
    \/ ClosureLock(1)
    \/ ClosureGetArg(1)
    \/ AnonymizeEntry(1)
    \/ AnonymizeAttempt(1)
    \/ UpdateReturn
    \/ UpdateDone
    \/ ExecDelete
    \/ ExecCommit
    \/ ExecVacuum
    \/ StmtFail

SpecRewrite == InitRewrite /\ [][NextRewrite]_vars

\* several execution contexts calling the registered function at once
NextConc ==
    \E t \in Threads :
        \/ CallShared(t)
        \/ ClosureLock(t)
        \/ ClosureGetArg(t)
        \/ AnonymizeEntry(t)
        \/ AnonymizeAttempt(t)

SpecConc == Init /\ [][NextConc]_vars

\* ----------------------------------------------------------------- claims
Done(t) == pc[t] = "done" /\ result[t].ok

\* C1: within one run every call of anonymize with the same non-empty
\* original returns the same replacement, whatever calls happen in between;
\* an inserted (original -> replacement) entry is never overwritten or
\* removed.
C1_SameOriginalSameReplacement ==
    /\ \A p \in returned, q \in returned : p[1] = q[1] => p[2] = q[2]
    /\ \A p \in returned :
         p[1] # <<>> => p[1] \in DOMAIN table /\ table[p[1]] = p[2]
    /\ \A e \in log, f \in log : e.key = f.key => e = f
    /\ \A e \in log : e.key \in DOMAIN table /\ table[e.key] = e.value

\* a repeated original answered from the table while the table holds another
\* original as well
C1_Witness ==
    /\ Done(1) /\ hit[1]
    /\ TableSize >= 2
    /\ \E e \in log : e.key = s[1] /\ e.value = result[1].v
    /\ <<s[1], result[1].v>> \in returned

\* C2: the replacement has as many characters as the original, also for
\* originals with multi-byte characters.
C2_SameCharacterCount ==
    \A t \in Threads : Done(t) => CharLen(result[t].v) = CharLen(s[t])

\* C3: an original not yet in the table gets, on attempts 1 to 9, only a
\* candidate that is no existing value of the table; two distinct originals
\* share a replacement only if the later one was forced on the 10th attempt.
C3_SharedReplacementOnlyWhenForced ==
    /\ \A e \in log : e.dup => e.tenth
    /\ \A x \in DOMAIN table, y \in DOMAIN table :
         (x # y /\ table[x] = table[y]) =>
            \E e \in log : e.key \in {x, y} /\ e.tenth

\* C5: anonymize("") returns "" and leaves the table as it was.
C5_EmptyLeavesTableAlone ==
    [][\A t \in Threads :
          (arg'[t] = Text(<<>>) /\ pc'[t] # "idle")
             => /\ table' = table
                /\ (pc'[t] = "done" => result'[t] = Ok(<<>>))]_vars

\* anonymize("") has returned "" while the table holds entries
C5_Witness ==
    /\ Done(1) /\ arg[1] = Text(<<>>)
    /\ result[1].v = <<>>
    /\ TableSize = MaxEntries
    /\ <<>> \notin DOMAIN table

\* C6: after a successful rewrite the value stored in an anonymized column
\* differs from its non-empty original, and rows with the same original
\* hold the same value.
C6_StoredValueDiffersFromOriginal ==
    status = "ok" =>
        \A tbl \in UpdatedTables :
            \A r \in 1..Len(origDb[tbl]) :
                \A column \in DOMAIN origDb[tbl][r] :
                    LET old == origDb[tbl][r][column]
                    IN  (column # "url_hash" /\ old.type = "text" /\ old.v # <<>>)
                            => /\ db[tbl][r][column] # old
                               /\ \A q \in 1..Len(origDb[tbl]) :
                                     origDb[tbl][q][column] = old
                                        => db[tbl][q][column] = db[tbl][r][column]

\* C9: the lookup, the collision check and the insert of one call run under
\* one mutex, so two concurrent calls with the same original return the same
\* replacement and the table holds one entry for that original.
C9_ConcurrentCallsAgree ==
    /\ Cardinality({t \in Threads : pc[t] \in {"locked", "anonymize", "loop"}}) <= 1
    /\ \A t \in Threads :
         pc[t] \in {"locked", "anonymize", "loop"} => mutex = t
    /\ \A t \in Threads, u \in Threads :
         (Done(t) /\ Done(u) /\ arg[t] = arg[u]) => result[t] = result[u]
    /\ \A t \in Threads :
         (Done(t) /\ s[t] # <<>>) =>
            /\ s[t] \in DOMAIN table /\ table[s[t]] = result[t].v
            /\ Cardinality({e \in log : e.key = s[t]}) = 1

\* two overlapping calls with the same non-empty original have both returned
C9_Witness ==
    /\ Done(1) /\ Done(2)
    /\ concurrent[2] /\ hit[2] /\ ~hit[1]
    /\ arg[1] = arg[2]
    /\ s[1] # <<>>
    /\ result[1] = result[2]

\* C10: every call returns after at most 10 candidates; when the first 9
\* collide the 10th is inserted and returned; the unreachable! after the
\* loop is never executed.
C10_ReturnsWithinTenAttempts ==
    \A t \in Threads :
        /\ pc[t] # "unreachable"
        /\ ncand[t] <= MaxAttempts
        /\ pc[t] = "loop" => (i[t] < MaxAttempts /\ ncand[t] = i[t])
        /\ (pc[t] = "done" /\ ncand[t] = MaxAttempts) =>
              /\ result[t].ok
              /\ s[t] \in DOMAIN table
              /\ table[s[t]] = result[t].v

\* nine candidates collided and the tenth, colliding too, was inserted
C10_Witness ==
    /\ Done(1)
    /\ ncand[1] = MaxAttempts
    /\ result[1].v \in DOMAIN table
    /\ table[s[1]] = result[1].v

\* C4: a rewrite reported as failed, at whichever statement, leaves the
\* database as it was: the updates and deletes are committed with a success
\* result or rolled back with a failure result.
C4_FailedRewriteLeavesDatabaseUnmodified ==
    /\ status = "failed" => db = origDb
    /\ db # origDb => status \in {"running", "ok"}

\* C7: a non-text value passed to anonymize is handed back unchanged and the
\* rewrite does not fail because of it.
C7_NonTextPassedThrough ==
    /\ status = "failed" => cause # "InvalidFunctionParameterType"
    /\ status = "ok" =>
         \A r \in 1..Len(origDb.moz_places) :
            origDb.moz_places[r].url.type # "text"
               => db.moz_places[r].url = origDb.moz_places[r].url

\* C8 as stated: after a successful rewrite the delete-all-rows tables,
\* typed-input history among them, have no rows.
C8_AuxiliaryTablesEmptyWithInputHistory ==
    status = "ok" =>
        \A tbl \in DeletedTables \cup {"moz_inputhistory"} : db[tbl] = <<>>

\* C8 amended: after a successful rewrite moz_hosts, moz_anno_attributes,
\* moz_annos, moz_items_annos, moz_bookmarks_deleted and moz_keywords have
\* no rows; moz_inputhistory keeps its rows, each input replaced by the
\* table's replacement for it.
C8_DeletedTablesEmptyInputHistoryAnonymized ==
    status = "ok" =>
        /\ DeletedTables = {"moz_hosts", "moz_anno_attributes", "moz_annos",
                            "moz_items_annos", "moz_bookmarks_deleted", "moz_keywords"}
        /\ \A tbl \in DeletedTables : db[tbl] = <<>>
        /\ Len(db.moz_inputhistory) = Len(origDb.moz_inputhistory)
        /\ \A r \in 1..Len(db.moz_inputhistory) :
             LET old == origDb.moz_inputhistory[r].input.v
             IN  db.moz_inputhistory[r].input =
                    Text(IF old = <<>> THEN <<>> ELSE table[old])

\* a rewrite of a database with rows in every auxiliary table has succeeded
C8_Witness ==
    /\ status = "ok"
    /\ \A tbl \in DeletedTables \cup {"moz_inputhistory"} : origDb[tbl] # <<>>
    /\ origDb.moz_places # <<>>
====
